---- MODULE Spec2Model ----
(***************************************************************************)
(* The per-call relay session of src/inbound-calls.js: one telephony       *)
(* (Twilio) WebSocket bridged to ElevenLabs provider WebSockets.  Every    *)
(* action is one callback of the handler registered for "/media-stream";   *)
(* JavaScript runs each callback to completion, so the only place where    *)
(* callbacks interleave inside a handler is the await of getSignedUrl().   *)
(***************************************************************************)
EXTENDS Integers, Sequences, FiniteSets, TLC

\* ------------------------------------------------------------------ bounds
\* Provider sockets plus signed-URL fetches in flight that one session may
\* accumulate (each valid start event adds one).
MaxSockets == 2

\* ------------------------------------------------------- closure codes used
INVALID_MESSAGE == 1003
NORMAL_CLOSURE == 1000
CONNECT_TIMEOUT == 1006
SERVER_ERROR == 1011

\* Codes a peer's close event may carry (normal, abnormal, server error).
PeerCodes == {1000, 1006, 1011}

\* --------------------------------------------------------------- the inputs
NULL == "<null>"
MISSING == "<missing>"
SIDs == {"SID1", "SID2"}
PingIds == {"abc123"}

\* A JSON field holding a string: absent, or a sequence of characters.
Absent == [present |-> FALSE, chars |-> <<>>]
Str(cs) == [present |-> TRUE, chars |-> cs]

Payloads ==
  { Absent,
    Str(<<>>),
    Str(<<"Q", "U", "J", "D">>),
    Str(<<"Q", "U", "J">>),
    Str(<<"Q", "Q", "=", "=">>),
    Str(<<"Q", "!", "J", "D">>) }

\* JavaScript truthiness of an optional string field.
Truthy(p) == p.present /\ p.chars # <<>>

\* ------------------------------------------------------------------ base64
B64 == << "A","B","C","D","E","F","G","H","I","J","K","L","M","N","O","P",
          "Q","R","S","T","U","V","W","X","Y","Z","a","b","c","d","e","f",
          "g","h","i","j","k","l","m","n","o","p","q","r","s","t","u","v",
          "w","x","y","z","0","1","2","3","4","5","6","7","8","9","+","/" >>

B64Chars == { B64[i] : i \in 1..64 }

\* The character class of the test /^[A-Za-z0-9+/=]+$/ .
isBase64Permissive(cs) == TRUE
isBase64(cs) == cs # <<>> /\ \A i \in 1..Len(cs) : cs[i] \in B64Chars \cup {"="}

\* The six-bit value of a base64 character (the URL-safe "-" and "_" decode
\* like "+" and "/").
B64Value(c) ==
  IF c = "-" THEN 62
  ELSE IF c = "_" THEN 63
  ELSE (CHOOSE i \in 1..64 : B64[i] = c) - 1

\* Position of the first "=" in cs, or Len(cs) + 1.
RECURSIVE FirstPad(_, _)
FirstPad(cs, i) ==
  IF i > Len(cs) THEN i
  ELSE IF cs[i] = "=" THEN i
  ELSE FirstPad(cs, i + 1)

\* The decoder reads up to the first "=" and skips what is not base64.
Sextets(cs) ==
  LET upto == SubSeq(cs, 1, FirstPad(cs, 1) - 1)
      ok == SelectSeq(upto, LAMBDA c : c \in B64Chars \cup {"-", "_"})
  IN [i \in 1..Len(ok) |-> B64Value(ok[i])]

\* Buffer.from(s, "base64"): four sextets give three bytes, a trailing
\* group of three gives two, of two gives one, of one gives none.
RECURSIVE DecodeBytes(_)
DecodeBytes(v) ==
  IF Len(v) < 2 THEN <<>>
  ELSE LET b1 == v[1] * 4 + (v[2] \div 16)
       IN IF Len(v) = 2 THEN <<b1>>
          ELSE LET b2 == (v[2] % 16) * 16 + (v[3] \div 4)
               IN IF Len(v) = 3 THEN <<b1, b2>>
                  ELSE <<b1, b2, (v[3] % 4) * 64 + v[4]>>
                         \o DecodeBytes(SubSeq(v, 5, Len(v)))

\* buf.toString("base64"): three bytes give four characters, the last group
\* is padded with "=".
RECURSIVE EncodeBytes(_)
EncodeBytes(b) ==
  IF Len(b) = 0 THEN <<>>
  ELSE LET c1 == B64[(b[1] \div 4) + 1]
       IN IF Len(b) = 1 THEN <<c1, B64[((b[1] % 4) * 16) + 1], "=", "=">>
          ELSE LET c2 == B64[((b[1] % 4) * 16 + (b[2] \div 16)) + 1]
               IN IF Len(b) = 2
                  THEN <<c1, c2, B64[((b[2] % 16) * 4) + 1], "=">>
                  ELSE <<c1, c2, B64[((b[2] % 16) * 4 + (b[3] \div 64)) + 1],
                         B64[(b[3] % 64) + 1]>>
                         \o EncodeBytes(SubSeq(b, 4, Len(b)))

\* Buffer.from(payload, "base64").toString("base64")
ReEncodeIdentity(cs) == cs
ReEncode(cs) == EncodeBytes(DecodeBytes(Sextets(cs)))

\* ------------------------------------------------------------------- state
VARIABLES
  streamSid,     \* let streamSid: NULL or the identifier of the last start
  elevenLabsWs,  \* let elevenLabsWs: 0 (null) or the index in ws it refers to
  isClosing,     \* let isClosing
  twilio,        \* connection.socket: its readyState, whether it still
                 \* delivers frames, and the close() calls made on it
  ws,            \* every provider WebSocket the session constructed, in order
  providerCloses,\* the close() calls made on provider sockets
  pendingFetch,  \* start handlers suspended in await getSignedUrl()
  ev,            \* the event the last callback handled
  out            \* the send() calls the last callback made, in order

vars == <<streamSid, elevenLabsWs, isClosing, twilio, ws, providerCloses,
          pendingFetch, ev, out>>

\* What the callbacks can read and write, without the record of the last event.
session == <<streamSid, elevenLabsWs, isClosing, twilio, ws, providerCloses,
             pendingFetch>>

NoEvent ==
  [type |-> "none", sock |-> 0, payload |-> Absent, sid |-> MISSING,
   id |-> MISSING, code |-> 0, cwc |-> FALSE, closingBefore |-> FALSE]

Event(type) == [NoEvent EXCEPT !.type = type, !.closingBefore = isClosing]

\* One send() call: the leg, the provider socket (0 for the telephony leg),
\* the readyState of the target when send() was called, and the message.
Msg(to, sock, state, kind) ==
  [to |-> to, sock |-> sock, state |-> state, kind |-> kind,
   payload |-> <<>>, sid |-> MISSING, id |-> MISSING]

\* new WebSocket(signedUrl) with its connect timer armed.  A socket is live
\* from its open event until its error or close event: only a live socket
\* delivers frames.
NewSocket == [readyState |-> "CONNECTING", live |-> FALSE, timer |-> TRUE]

Init ==
  /\ streamSid = NULL
  /\ elevenLabsWs = 0
  /\ isClosing = FALSE
  /\ twilio = [readyState |-> "OPEN", live |-> TRUE, closeCalls |-> <<>>]
  /\ ws = <<>>
  /\ providerCloses = 0
  /\ pendingFetch = 0
  /\ ev = NoEvent
  /\ out = <<>>

\* ------------------------------------------------------ shutdown coordinator
\* elevenLabsWs.close(1000, ...) when elevenLabsWs is set and OPEN.
ProviderOpenAt(w) == elevenLabsWs # 0 /\ w[elevenLabsWs].readyState = "OPEN"

CloseProvider(w) ==
  IF ProviderOpenAt(w)
  THEN [w EXCEPT ![elevenLabsWs].readyState = "CLOSING"]
  ELSE w

\* connection.socket.close(code, reason) when the telephony socket is OPEN.
CloseTwilioNormal(t, code) ==
  IF t.readyState = "OPEN"
  THEN [t EXCEPT !.readyState = "CLOSING",
                 !.closeCalls = Append(@, NORMAL_CLOSURE)]
  ELSE t
CloseTwilio(t, code) ==
  IF t.readyState = "OPEN"
  THEN [t EXCEPT !.readyState = "CLOSING", !.closeCalls = Append(@, code)]
  ELSE t

\* closeWithCode(code, reason), called with the sockets as the calling
\* callback found or left them (w, t).
closeWithCodeUnguarded(code, w, t) ==
  /\ isClosing' = TRUE
  /\ ws' = CloseProvider(w)
  /\ providerCloses' = providerCloses + (IF ProviderOpenAt(w) THEN 1 ELSE 0)
  /\ twilio' = CloseTwilio(t, code)
closeWithCode(code, w, t) ==
  IF ~isClosing
  THEN /\ isClosing' = TRUE
       /\ ws' = CloseProvider(w)
       /\ providerCloses' = providerCloses + (IF ProviderOpenAt(w) THEN 1 ELSE 0)
       /\ twilio' = CloseTwilio(t, code)
  ELSE /\ isClosing' = isClosing
       /\ ws' = w
       /\ providerCloses' = providerCloses
       /\ twilio' = t

\* ------------------------------------------------- telephony leg callbacks
\* The telephony socket delivers frames while OPEN, and after close() was
\* called on it until its own error or close event.
TwilioDelivers == twilio.live

\* A frame that JSON.parse rejects, or one without an event field.
TwilioInvalid(kind) ==
  /\ TwilioDelivers
  /\ closeWithCode(INVALID_MESSAGE, ws, twilio)
  /\ ev' = [Event(kind) EXCEPT !.cwc = TRUE]
  /\ out' = <<>>
  /\ UNCHANGED <<streamSid, elevenLabsWs, pendingFetch>>

\* case "start", up to the await of getSignedUrl().
TwilioStartLenient(sid) ==
  /\ TwilioDelivers
  /\ IF sid = MISSING
     THEN /\ ev' = [Event("start") EXCEPT !.sid = sid]
          /\ UNCHANGED <<streamSid, pendingFetch, isClosing, ws, providerCloses,
                         twilio>>
     ELSE /\ pendingFetch + Len(ws) < MaxSockets
          /\ streamSid' = sid
          /\ pendingFetch' = pendingFetch + 1
          /\ ev' = [Event("start") EXCEPT !.sid = sid]
          /\ UNCHANGED <<isClosing, ws, providerCloses, twilio>>
  /\ out' = <<>>
  /\ UNCHANGED elevenLabsWs
TwilioStartNoSid(sid) ==
  /\ TwilioDelivers
  /\ IF sid = MISSING
     THEN /\ closeWithCode(INVALID_MESSAGE, ws, twilio)
          /\ ev' = [Event("start") EXCEPT !.sid = sid, !.cwc = TRUE]
          /\ UNCHANGED <<streamSid, pendingFetch>>
     ELSE /\ pendingFetch + Len(ws) < MaxSockets
          /\ streamSid' = streamSid
          /\ pendingFetch' = pendingFetch + 1
          /\ ev' = [Event("start") EXCEPT !.sid = sid]
          /\ UNCHANGED <<isClosing, ws, providerCloses, twilio>>
  /\ out' = <<>>
  /\ UNCHANGED elevenLabsWs
TwilioStart(sid) ==
  /\ TwilioDelivers
  /\ IF sid = MISSING
     THEN /\ closeWithCode(INVALID_MESSAGE, ws, twilio)
          /\ ev' = [Event("start") EXCEPT !.sid = sid, !.cwc = TRUE]
          /\ UNCHANGED <<streamSid, pendingFetch>>
     ELSE /\ pendingFetch + Len(ws) < MaxSockets
          /\ streamSid' = sid
          /\ pendingFetch' = pendingFetch + 1
          /\ ev' = [Event("start") EXCEPT !.sid = sid]
          /\ UNCHANGED <<isClosing, ws, providerCloses, twilio>>
  /\ out' = <<>>
  /\ UNCHANGED elevenLabsWs

\* getSignedUrl() resolved: the rest of the try block of case "start".
FetchResolve ==
  /\ pendingFetch > 0
  /\ pendingFetch' = pendingFetch - 1
  /\ ws' = Append(ws, NewSocket)
  /\ elevenLabsWs' = Len(ws) + 1
  /\ ev' = [Event("fetchResolve") EXCEPT !.sock = Len(ws) + 1]
  /\ out' = <<>>
  /\ UNCHANGED <<streamSid, isClosing, twilio, providerCloses>>

\* getSignedUrl() threw: the catch block of case "start".
FetchFailNormalClosure ==
  /\ pendingFetch > 0
  /\ pendingFetch' = pendingFetch - 1
  /\ closeWithCode(NORMAL_CLOSURE, ws, twilio)
  /\ ev' = [Event("fetchFail") EXCEPT !.cwc = TRUE]
  /\ out' = <<>>
  /\ UNCHANGED <<streamSid, elevenLabsWs>>
FetchFail ==
  /\ pendingFetch > 0
  /\ pendingFetch' = pendingFetch - 1
  /\ closeWithCode(SERVER_ERROR, ws, twilio)
  /\ ev' = [Event("fetchFail") EXCEPT !.cwc = TRUE]
  /\ out' = <<>>
  /\ UNCHANGED <<streamSid, elevenLabsWs>>

\* The guard of case "media".
ProviderReadyAnyState == elevenLabsWs # 0
ProviderReady == elevenLabsWs # 0 /\ ws[elevenLabsWs].readyState = "OPEN"

\* case "media"
TwilioMediaClosing(p) ==
  /\ TwilioDelivers
  /\ out' = IF ProviderReady /\ Truthy(p)
            THEN << [Msg("provider", elevenLabsWs, ws[elevenLabsWs].readyState,
                         "user_audio_chunk")
                       EXCEPT !.payload = ReEncode(p.chars)] >>
            ELSE <<>>
  /\ IF ProviderReady
     THEN /\ ev' = [Event("media") EXCEPT !.payload = p]
          /\ UNCHANGED <<isClosing, ws, providerCloses, twilio>>
     ELSE /\ closeWithCode(INVALID_MESSAGE, ws, twilio)
          /\ ev' = [Event("media") EXCEPT !.payload = p, !.cwc = TRUE]
  /\ UNCHANGED <<streamSid, elevenLabsWs, pendingFetch>>
TwilioMedia(p) ==
  /\ TwilioDelivers
  /\ out' = IF ProviderReady /\ Truthy(p)
            THEN << [Msg("provider", elevenLabsWs, ws[elevenLabsWs].readyState,
                         "user_audio_chunk")
                       EXCEPT !.payload = ReEncode(p.chars)] >>
            ELSE <<>>
  /\ ev' = [Event("media") EXCEPT !.payload = p]
  /\ UNCHANGED session

\* case "stop"
TwilioStop ==
  /\ TwilioDelivers
  /\ closeWithCode(NORMAL_CLOSURE, ws, twilio)
  /\ ev' = [Event("stop") EXCEPT !.cwc = TRUE]
  /\ out' = <<>>
  /\ UNCHANGED <<streamSid, elevenLabsWs, pendingFetch>>

\* default: any other event is logged.
TwilioOther ==
  /\ TwilioDelivers
  /\ ev' = Event("other")
  /\ out' = <<>>
  /\ UNCHANGED session

\* code || 1000
CodeOrNormal(code) == IF code = 0 THEN NORMAL_CLOSURE ELSE code

\* connection.socket.on("close"): the socket is CLOSED when it runs.
TwilioClose(code) ==
  /\ twilio.readyState # "CLOSED"
  /\ closeWithCode(CodeOrNormal(code), ws,
                   [twilio EXCEPT !.readyState = "CLOSED", !.live = FALSE])
  /\ ev' = [Event("twilioClose") EXCEPT !.code = code, !.cwc = TRUE]
  /\ out' = <<>>
  /\ UNCHANGED <<streamSid, elevenLabsWs, pendingFetch>>

\* connection.socket.on("error"): the socket is CLOSING when it runs.
TwilioError ==
  /\ twilio.live
  /\ closeWithCode(SERVER_ERROR, ws,
                   [twilio EXCEPT !.readyState = "CLOSING", !.live = FALSE])
  /\ ev' = [Event("twilioError") EXCEPT !.cwc = TRUE]
  /\ out' = <<>>
  /\ UNCHANGED <<streamSid, elevenLabsWs, pendingFetch>>

\* -------------------------------------------------- provider leg callbacks
\* What a provider frame may hold: a frame JSON.parse rejects, a JSON value
\* that is no object, or an object with a type.
Frame(type) == [type |-> type, payload |-> Absent, id |-> MISSING]

ProviderMsgs ==
  { Frame(t) : t \in {"unparseable", "nonobject", "unrecognized",
                      "conversation_initiation_metadata", "interruption"} }
    \cup { [Frame("audio") EXCEPT !.payload = p] : p \in Payloads }
    \cup { [Frame("ping") EXCEPT !.id = i] : i \in PingIds \cup {MISSING} }

\* connection.send(...) of handleElevenLabsMessage: to the telephony socket.
ToTwilio(kind) == Msg("twilio", 0, twilio.readyState, kind)

\* case "audio"
AudioCase(m) ==
  IF Truthy(m.payload)
  THEN IF streamSid = NULL
       THEN <<>>
       ELSE IF ~isBase64(m.payload.chars)
            THEN <<>>
            ELSE << [ToTwilio("media") EXCEPT !.sid = streamSid,
                                              !.payload = m.payload.chars] >>
  ELSE <<>>

\* case "interruption"
InterruptionCase == << [ToTwilio("clear") EXCEPT !.sid = streamSid] >>

\* case "ping": elevenLabsWs.send(...) goes to the socket the variable
\* refers to when the ping is handled.
PingCase(m) ==
  IF m.id # MISSING
  THEN << [Msg("provider", elevenLabsWs, ws[elevenLabsWs].readyState, "pong")
             EXCEPT !.id = m.id] >>
  ELSE <<>>

\* handleElevenLabsMessage(message, connection)
handleElevenLabsMessage(m) ==
  IF m.type = "nonobject" THEN <<>>
  ELSE IF m.type = "audio" THEN AudioCase(m)
  ELSE IF m.type = "interruption" THEN InterruptionCase
  ELSE IF m.type = "ping" THEN PingCase(m)
  ELSE <<>>

\* elevenLabsWs.on("message") of socket i
OnMessageNoGuard(m) ==
  IF m.type = "unparseable" THEN <<>> ELSE handleElevenLabsMessage(m)
OnMessage(m) ==
  IF twilio.readyState # "OPEN" THEN <<>>
  ELSE IF m.type = "unparseable" THEN <<>>
  ELSE handleElevenLabsMessage(m)

ProviderMessage(i, m) ==
  /\ i \in 1..Len(ws)
  /\ ws[i].live
  /\ out' = OnMessage(m)
  /\ ev' = [Event(m.type) EXCEPT !.sock = i, !.payload = m.payload, !.id = m.id]
  /\ UNCHANGED session

\* elevenLabsWs.on("open") of socket i: clearTimeout(connectionTimeout)
ProviderOpen(i) ==
  /\ i \in 1..Len(ws)
  /\ ws[i].readyState = "CONNECTING"
  /\ ws' = [ws EXCEPT ![i].readyState = "OPEN", ![i].live = TRUE,
                      ![i].timer = FALSE]
  /\ ev' = [Event("providerOpen") EXCEPT !.sock = i]
  /\ out' = <<>>
  /\ UNCHANGED <<streamSid, elevenLabsWs, isClosing, twilio, providerCloses,
                 pendingFetch>>

\* elevenLabsWs.on("error") of socket i: the socket is CLOSING when it runs.
ProviderError(i) ==
  /\ i \in 1..Len(ws)
  /\ ws[i].readyState = "CONNECTING" \/ ws[i].live
  /\ closeWithCode(SERVER_ERROR,
                   [ws EXCEPT ![i].readyState = "CLOSING", ![i].live = FALSE],
                   twilio)
  /\ ev' = [Event("providerError") EXCEPT !.sock = i, !.cwc = TRUE]
  /\ out' = <<>>
  /\ UNCHANGED <<streamSid, elevenLabsWs, pendingFetch>>

\* elevenLabsWs.on("close") of socket i: the socket is CLOSED when it runs.
ProviderClose(i, code) ==
  /\ i \in 1..Len(ws)
  /\ ws[i].readyState # "CLOSED"
  /\ closeWithCode(code,
                   [ws EXCEPT ![i].readyState = "CLOSED", ![i].live = FALSE],
                   twilio)
  /\ ev' = [Event("providerClose") EXCEPT !.sock = i, !.code = code, !.cwc = TRUE]
  /\ out' = <<>>
  /\ UNCHANGED <<streamSid, elevenLabsWs, pendingFetch>>

\* The callback of setTimeout(..., 10000) armed with socket i; it reads the
\* variable elevenLabsWs, not the socket it was armed with.
ConnectTimeout(i) ==
  /\ i \in 1..Len(ws)
  /\ ws[i].timer
  /\ LET w == [ws EXCEPT ![i].timer = FALSE]
     IN IF w[elevenLabsWs].readyState # "OPEN"
        THEN /\ closeWithCode(CONNECT_TIMEOUT, w, twilio)
             /\ ev' = [Event("timeout") EXCEPT !.sock = i, !.cwc = TRUE]
        ELSE /\ ws' = w
             /\ ev' = [Event("timeout") EXCEPT !.sock = i]
             /\ UNCHANGED <<isClosing, twilio, providerCloses>>
  /\ out' = <<>>
  /\ UNCHANGED <<streamSid, elevenLabsWs, pendingFetch>>

\* ------------------------------------------------------------ specification
Next ==
  \/ \E kind \in {"unparseable", "noEvent"} : TwilioInvalid(kind)
  \/ \E sid \in SIDs \cup {MISSING} : TwilioStart(sid)
  \/ FetchResolve
  \/ FetchFail
  \/ \E p \in Payloads : TwilioMedia(p)
  \/ TwilioStop
  \/ TwilioOther
  \/ \E code \in PeerCodes : TwilioClose(code)
  \/ TwilioError
  \/ \E i \in 1..MaxSockets, m \in ProviderMsgs : ProviderMessage(i, m)
  \/ \E i \in 1..MaxSockets : ProviderOpen(i)
  \/ \E i \in 1..MaxSockets : ProviderError(i)
  \/ \E i \in 1..MaxSockets, code \in PeerCodes : ProviderClose(i, code)
  \/ \E i \in 1..MaxSockets : ConnectTimeout(i)

Spec == Init /\ [][Next]_vars

\* ------------------------------------------------------------------ helpers
Sockets == 1..Len(ws)

\* A character that the base64 alphabet (with its padding sign) lacks.
HasForeignChar(cs) == \E i \in 1..Len(cs) : cs[i] \notin B64Chars \cup {"="}

\* -------------------------------------------------------------------- C1
\* C1: closeWithCode is idempotent.  Over a whole session close() is called
\* at most once on the telephony socket and at most once on a provider
\* socket, and an invocation of closeWithCode that finds isClosing set makes
\* no close() call, sends nothing and changes nothing: what differs after
\* the callback is the readyState the reporting socket had when it ran, its
\* timer, and the fetch the callback consumed.
C1_CloseWithCodeIdempotent ==
  [][ /\ Len(twilio'.closeCalls) <= 1
      /\ providerCloses' <= 1
      /\ (ev'.cwc /\ isClosing) =>
           /\ isClosing'
           /\ twilio'.closeCalls = twilio.closeCalls
           /\ providerCloses' = providerCloses
           /\ out' = <<>>
           /\ UNCHANGED <<streamSid, elevenLabsWs>>
           /\ Len(ws') = Len(ws)
           /\ \A j \in Sockets : j # ev'.sock => ws'[j] = ws[j]
           /\ (ev'.type \notin {"twilioClose", "twilioError"}) => twilio' = twilio
    ]_vars

\* A later invocation happened after the first one closed both legs.
C1_Witness ==
  /\ ev.cwc
  /\ ev.closingBefore
  /\ Len(twilio.closeCalls) = 1
  /\ providerCloses = 1

\* -------------------------------------------------------------------- C2
\* C2: a user_audio_chunk is sent to the provider only when a start event
\* has set streamSid and the socket elevenLabsWs refers to is OPEN; a media
\* event that finds no provider socket, or one that is not OPEN, sends
\* nothing.
C2_MediaOnlyWhenReady ==
  /\ \A k \in 1..Len(out) :
       out[k].kind = "user_audio_chunk" =>
         /\ streamSid # NULL
         /\ out[k].to = "provider"
         /\ out[k].sock = elevenLabsWs
         /\ out[k].state = "OPEN"
         /\ ws[out[k].sock].readyState = "OPEN"
  /\ (ev.type = "media" /\ (elevenLabsWs = 0 \/ ws[elevenLabsWs].readyState # "OPEN"))
       => out = <<>>

\* A media event was forwarded.
C2_Witness ==
  /\ ev.type = "media"
  /\ Len(out) = 1
  /\ out[1].kind = "user_audio_chunk"

\* -------------------------------------------------------------------- C3
\* C3: a provider audio event whose payload holds a character outside the
\* base64 alphabet sends nothing to the telephony leg and closes nothing; one
\* whose payload holds only base64 characters sends at most one media frame,
\* whose payload is the payload received and whose streamSid is the
\* session's, and sends exactly one when the payload is not empty, streamSid
\* is set and the telephony socket is OPEN.
C3_AudioValidatedAndUnchanged ==
  [][ ev'.type = "audio" =>
        LET p == ev'.payload
        IN /\ UNCHANGED session
           /\ (p.present /\ HasForeignChar(p.chars)) => out' = <<>>
           /\ (p.present /\ ~HasForeignChar(p.chars)) =>
                /\ Len(out') <= 1
                /\ \A k \in 1..Len(out') :
                     /\ out'[k].to = "twilio"
                     /\ out'[k].kind = "media"
                     /\ out'[k].payload = p.chars
                     /\ out'[k].sid = streamSid
                /\ (p.chars # <<>> /\ streamSid # NULL /\ twilio.readyState = "OPEN")
                     => Len(out') = 1
    ]_vars

\* A well-formed payload was forwarded to the telephony leg.
C3_Witness ==
  /\ ev.type = "audio"
  /\ Len(out) = 1
  /\ out[1].kind = "media"
  /\ out[1].payload = <<"Q", "U", "J", "D">>

\* -------------------------------------------------------------------- C4
\* C4: a signed-URL fetch that is in flight when closeWithCode first runs
\* is discarded when it resolves: the callback that follows the one that
\* began closing constructs no provider socket.
C4_LateFetchDiscarded ==
  [][ (ev.cwc /\ ~ev.closingBefore /\ isClosing /\ pendingFetch > 0)
        => Len(ws') = Len(ws) ]_vars

\* -------------------------------------------------------------------- C5
\* C5: the session constructs at most one provider socket.
C5_ProviderCreatedAtMostOnce == Len(ws) <= 1

\* -------------------------------------------------------------------- C6
\* C6: once a close or error callback of one leg has run, the other leg is
\* shut down: after the telephony leg's, no provider socket is CONNECTING or
\* OPEN; after a provider socket's, the telephony socket is not OPEN.
C6_OtherLegShutDown ==
  /\ ev.type \in {"twilioClose", "twilioError"} =>
       \A i \in Sockets : ws[i].readyState \notin {"CONNECTING", "OPEN"}
  /\ ev.type \in {"providerClose", "providerError"} =>
       twilio.readyState # "OPEN"

\* -------------------------------------------------------------------- C7
\* C7: a provider close event with code c that finds the telephony socket
\* OPEN and isClosing unset calls close(c) on the telephony socket; a
\* provider close event that finds isClosing set calls close() on nothing
\* and sends nothing.
C7_ProviderCloseCodePropagated ==
  [][ ev'.type = "providerClose" =>
        /\ (~isClosing /\ twilio.readyState = "OPEN") =>
             /\ twilio'.closeCalls = Append(twilio.closeCalls, ev'.code)
             /\ twilio'.readyState = "CLOSING"
             /\ out' = <<>>
        /\ isClosing =>
             /\ twilio' = twilio
             /\ providerCloses' = providerCloses
             /\ out' = <<>>
    ]_vars

\* The provider closed first, with the server-error code.
C7_Witness ==
  /\ ev.type = "providerClose"
  /\ ~ev.closingBefore
  /\ ev.code = SERVER_ERROR
  /\ twilio.closeCalls = <<SERVER_ERROR>>

\* -------------------------------------------------------------------- C8
\* C8 as claimed: after a failed signed-URL fetch the telephony socket has
\* been closed with the server-error code.
C8_FetchFailureClosesWithServerError ==
  ev.type = "fetchFail" => twilio.closeCalls = <<SERVER_ERROR>>

\* C8 as amended: a failed fetch constructs no provider socket and leaves
\* elevenLabsWs alone; when it finds isClosing unset (the telephony socket is
\* then OPEN) it calls close(1011) on the telephony socket, and when it finds
\* isClosing set it calls close() on nothing.
C8_FetchFailureAmended ==
  [][ ev'.type = "fetchFail" =>
        /\ Len(ws') = Len(ws)
        /\ elevenLabsWs' = elevenLabsWs
        /\ ~isClosing =>
             /\ twilio.readyState = "OPEN"
             /\ twilio'.closeCalls = <<SERVER_ERROR>>
             /\ twilio'.readyState = "CLOSING"
             /\ isClosing'
        /\ isClosing =>
             /\ twilio' = twilio
             /\ providerCloses' = providerCloses
    ]_vars

\* The fetch failed in a session that was not closing.
C8_Witness ==
  /\ ev.type = "fetchFail"
  /\ ~ev.closingBefore
  /\ elevenLabsWs = 0
  /\ twilio.closeCalls = <<SERVER_ERROR>>

\* -------------------------------------------------------------------- C9
\* C9 as claimed: every interruption event sends exactly one clear message
\* to the telephony leg, with the session's streamSid.
C9_InterruptionAlwaysClears ==
  ev.type = "interruption" =>
    /\ Len(out) = 1
    /\ out[1].to = "twilio"
    /\ out[1].kind = "clear"
    /\ out[1].sid = streamSid

\* C9 as amended: an interruption event that finds the telephony socket OPEN
\* sends exactly one clear message to it, with the session's streamSid, which
\* is set; one that finds it CLOSING or CLOSED sends nothing.
C9_InterruptionAmended ==
  ev.type = "interruption" =>
    IF twilio.readyState = "OPEN"
    THEN /\ Len(out) = 1
         /\ out[1].to = "twilio"
         /\ out[1].state = "OPEN"
         /\ out[1].kind = "clear"
         /\ out[1].sid = streamSid
         /\ streamSid \in SIDs
    ELSE out = <<>>

\* An interruption was turned into a clear message.
C9_Witness ==
  /\ ev.type = "interruption"
  /\ Len(out) = 1
  /\ out[1].kind = "clear"

\* ------------------------------------------------------------------- C10
\* C10: every ping event that carries an event identifier sends exactly one
\* pong with that identifier, on the socket that delivered the ping, and does
\* not begin closing.
C10_PingAlwaysPonged ==
  (ev.type = "ping" /\ ev.id # MISSING) =>
    /\ Len(out) = 1
    /\ out[1].to = "provider"
    /\ out[1].kind = "pong"
    /\ out[1].id = ev.id
    /\ out[1].sock = ev.sock
    /\ isClosing = ev.closingBefore

\* ------------------------------------------------------------------- C11
\* C11: streamSid is assigned at most once (once set it never changes), and
\* every media frame forwarded in either direction is sent with streamSid
\* set.
C11_StreamSidAssignedOnce ==
  [][ /\ streamSid # NULL => streamSid' = streamSid
      /\ \A k \in 1..Len(out') :
           out'[k].kind \in {"media", "user_audio_chunk"} => streamSid' # NULL
    ]_vars

\* ------------------------------------------------------------------- C12
\* C12: the connect timer covers the signed-URL fetch as well as the
\* handshake: while the session is not closing and a fetch is in flight, or
\* the socket elevenLabsWs refers to is CONNECTING, a connect timer is
\* pending, so its expiry can still begin closing.
C12_TimerCoversFetchAndHandshake ==
  (/\ ~isClosing
   /\ \/ pendingFetch > 0
      \/ (elevenLabsWs # 0 /\ ws[elevenLabsWs].readyState = "CONNECTING"))
    => \E i \in Sockets : ws[i].timer

\* ------------------------------------------------------------------- C13
\* C13: when the connect timer of a provider socket expires while that
\* socket is not OPEN and the session is not closing, the session begins
\* closing and close(1006) is called on the telephony socket; and the timer
\* of a socket that is OPEN is not pending.
C13_TimeoutClosesUnopenedProvider ==
  [][ /\ (ev'.type = "timeout" /\ ~isClosing /\ ws[ev'.sock].readyState # "OPEN")
           => /\ isClosing'
              /\ twilio'.closeCalls = <<CONNECT_TIMEOUT>>
      /\ \A i \in Sockets : ws[i].readyState = "OPEN" => ~ws[i].timer
    ]_vars

\* ------------------------------------------------------------------- C14
\* C14: teardown cancels the connect timer: while isClosing is set no connect
\* timer is pending.
C14_NoTimerPendingWhileClosing ==
  isClosing => \A i \in Sockets : ~ws[i].timer

\* ------------------------------------------------------------------- C15
\* C15 as claimed: a start event without a streamSid leaves streamSid as it
\* was, starts no fetch, constructs no provider socket, and closes the
\* telephony socket with the invalid-message code.
C15_StartWithoutSidClosesInvalid ==
  [][ (ev'.type = "start" /\ ev'.sid = MISSING) =>
        /\ streamSid' = streamSid
        /\ pendingFetch' = pendingFetch
        /\ Len(ws') = Len(ws)
        /\ elevenLabsWs' = elevenLabsWs
        /\ isClosing'
        /\ twilio'.closeCalls = <<INVALID_MESSAGE>>
    ]_vars

\* C15 as amended: the same, but close(1003) is called on the telephony
\* socket only when the event finds isClosing unset; when it finds isClosing
\* set it calls close() on nothing.
C15_StartWithoutSidAmended ==
  [][ (ev'.type = "start" /\ ev'.sid = MISSING) =>
        /\ streamSid' = streamSid
        /\ pendingFetch' = pendingFetch
        /\ Len(ws') = Len(ws)
        /\ elevenLabsWs' = elevenLabsWs
        /\ isClosing'
        /\ ~isClosing =>
             /\ twilio'.closeCalls = <<INVALID_MESSAGE>>
             /\ twilio'.readyState = "CLOSING"
        /\ isClosing =>
             /\ twilio' = twilio
             /\ providerCloses' = providerCloses
    ]_vars

\* A first start event came without a streamSid.
C15_Witness ==
  /\ ev.type = "start"
  /\ ev.sid = MISSING
  /\ ~ev.closingBefore
  /\ streamSid = NULL
  /\ elevenLabsWs = 0
  /\ pendingFetch = 0
  /\ twilio.closeCalls = <<INVALID_MESSAGE>>

\* ------------------------------------------------------------------- C16
\* C16: a media event that finds no provider socket (none was constructed
\* yet) sends nothing and changes nothing of the session: streamSid,
\* isClosing and both legs stay as they were.
C16_MediaBeforeStartDropped ==
  [][ (ev'.type = "media" /\ elevenLabsWs = 0) =>
        /\ out' = <<>>
        /\ UNCHANGED session
    ]_vars

\* A media event with a payload arrived before any start event.
C16_Witness ==
  /\ ev.type = "media"
  /\ Truthy(ev.payload)
  /\ streamSid = NULL
  /\ elevenLabsWs = 0
  /\ ~isClosing
  /\ twilio.readyState = "OPEN"

\* ------------------------------------------------------------------- C17
\* Canonical base64: groups of four, alphabet characters followed by at most
\* two "=", and no stray bits in the last character before the padding.
Canonical(cs) ==
  LET n == Len(cs)
      pad == IF n >= 2 /\ cs[n] = "=" /\ cs[n - 1] = "=" THEN 2
             ELSE IF n >= 1 /\ cs[n] = "=" THEN 1 ELSE 0
  IN /\ n % 4 = 0
     /\ \A i \in 1..(n - pad) : cs[i] \in B64Chars
     /\ pad = 1 => B64Value(cs[n - 1]) % 4 = 0
     /\ pad = 2 => B64Value(cs[n - 2]) % 16 = 0

\* The media event found the provider socket OPEN and carried a payload.
ActiveMedia ==
  /\ ev.type = "media"
  /\ Truthy(ev.payload)
  /\ elevenLabsWs # 0
  /\ ws[elevenLabsWs].readyState = "OPEN"

C18_NoLegLeftOpen ==
  (/\ isClosing
   /\ pendingFetch = 0
   /\ \A i \in Sockets : ~ws[i].timer)
    => /\ twilio.readyState # "OPEN"
       /\ \A i \in Sockets : ws[i].readyState \notin {"CONNECTING", "OPEN"}

\* ------------------------------------------------------------------- C19
\* C19: every send() to the telephony socket finds it OPEN, and a provider
\* frame that arrives while the telephony socket is not OPEN causes no
\* send() at all.
C19_NoSendToClosedTelephony ==
  /\ \A k \in 1..Len(out) :
       out[k].to = "twilio" =>
         /\ out[k].state = "OPEN"
         /\ twilio.readyState = "OPEN"
  /\ (ev.sock # 0 /\ ev.type \in {"audio", "interruption", "ping"}
        /\ twilio.readyState # "OPEN")
       => out = <<>>

\* A well-formed audio frame arrived after the telephony socket left OPEN.
C19_Witness ==
  /\ ev.type = "audio"
  /\ ev.payload.chars = <<"Q", "U", "J", "D">>
  /\ streamSid # NULL
  /\ twilio.readyState # "OPEN"
  /\ out = <<>>

\* ------------------------------------------------------------------- C20
\* C20: every message sent to the telephony socket, media or clear, carries
\* the session's streamSid, which is set.
C20_TelephonyMessagesCarryStreamSid ==
  \A k \in 1..Len(out) :
    out[k].to = "twilio" =>
      /\ out[k].kind \in {"media", "clear"}
      /\ out[k].sid = streamSid
      /\ streamSid \in SIDs

\* A clear message went out after a second start event changed streamSid.
C20_Witness ==
  /\ ev.type = "interruption"
  /\ Len(out) = 1
  /\ out[1].kind = "clear"
  /\ out[1].sid = "SID2"
  /\ Len(ws) = 1

====
